---- MODULE Spec2Model ----
(***************************************************************************)
(* A model of the pull-request review-threshold action (src/src/action.ts, *)
(* src/src/main.ts).                                                       *)
(*                                                                         *)
(*   - uniqueActiveApprovers: the for-loop over the reviews, one action    *)
(*     per iteration, and the final reduce (SpecAggregator);               *)
(*   - requiredReviewThreshold: one call on labels, prefix and default     *)
(*     (SpecResolver);                                                     *)
(*   - main/run: the orchestration, one action per statement that reads an *)
(*     input, calls upstream, throws, warns or reports (Spec).             *)
(*                                                                         *)
(* JavaScript strings are sequences of one-character strings (label names, *)
(* inputs) or of digits (timestamps); JavaScript numbers are decimal       *)
(* fractions num/den, or NaN.                                              *)
(***************************************************************************)
EXTENDS Integers, Sequences, FiniteSets, TLC

VARIABLES
    reviews,          \* uniqueActiveApprovers: the reviews iterated so far
    latestReviews,    \* uniqueActiveApprovers: login -> {timestamp, state}
    aggPc,            \* uniqueActiveApprovers: "loop" | "returned"
    aggResult,        \* uniqueActiveApprovers: the returned count (-1 before)
    resArgs,          \* requiredReviewThreshold: its three arguments
    resPc,            \* requiredReviewThreshold: "call" | "returned"
    resResult,        \* requiredReviewThreshold: the returned number
    resWarnings,      \* requiredReviewThreshold: core.warning calls made
    pc,               \* main/run: the statement about to execute
    thrown,           \* main/run: the error in flight to main's catch
    env,              \* main/run: event name and the three action inputs
    upstream,         \* main/run: number of graphql calls made
    pullRequest,      \* main/run: the fetched pull request
    labelFormat,      \* main/run: local of run
    defaultReviews,   \* main/run: local of run
    requiredApprovals,\* main/run: local of run
    approveCount,     \* main/run: local of run
    calls,            \* main/run: which of the two decision functions ran
    warnings,         \* main/run: core.warning calls, in order
    failures,         \* main/run: core.setFailed calls, in order
    infos             \* main/run: number of core.info calls

aggVars == <<reviews, latestReviews, aggPc, aggResult>>
resVars == <<resArgs, resPc, resResult, resWarnings>>
runVars == <<pc, thrown, env, upstream, pullRequest, labelFormat, defaultReviews,
             requiredApprovals, approveCount, calls, warnings, failures, infos>>
vars == <<aggVars, resVars, runVars>>

-----------------------------------------------------------------------------
(* Bounds of the model.                                                    *)

\* longest review list handed to uniqueActiveApprovers
MaxReviews == 3
\* longest label list handed to requiredReviewThreshold
MaxLabels == 2
\* longest review list the upstream query answers with
MaxFetchedReviews == 2
\* longest label list the upstream query answers with
MaxFetchedLabels == 1

-----------------------------------------------------------------------------
(* JavaScript strings.                                                     *)

\* a < b on strings: lexicographic on code units, a proper prefix is smaller
RECURSIVE StrLess(_, _)
StrLess(a, b) ==
    IF b = <<>> THEN FALSE
    ELSE IF a = <<>> THEN TRUE
    ELSE IF Head(a) # Head(b) THEN Head(a) < Head(b)
    ELSE StrLess(Tail(a), Tail(b))

\* String.prototype.startsWith
StartsWith(name, prefix) ==
    /\ Len(prefix) <= Len(name)
    /\ SubSeq(name, 1, Len(prefix)) = prefix

\* the least index at which pattern occurs in str, 0 when it does not
IndexOf(str, pattern) ==
    LET hits == {i \in 1..(Len(str) - Len(pattern) + 1) :
                    SubSeq(str, i, i + Len(pattern) - 1) = pattern}
    IN  IF hits = {} THEN 0 ELSE CHOOSE i \in hits : \A j \in hits : i <= j

\* str.replace(pattern, '') with a string pattern: the first occurrence goes
ReplaceFirstWithEmpty(str, pattern) ==
    LET i == IndexOf(str, pattern)
    IN  IF i = 0 THEN str
        ELSE SubSeq(str, 1, i - 1) \o SubSeq(str, i + Len(pattern), Len(str))

\* String.prototype.trim, on strings whose only white space is " "
RECURSIVE TrimLeft(_)
TrimLeft(s) == IF s # <<>> /\ Head(s) = " " THEN TrimLeft(Tail(s)) ELSE s

RECURSIVE TrimRight(_)
TrimRight(s) ==
    IF s # <<>> /\ s[Len(s)] = " " THEN TrimRight(SubSeq(s, 1, Len(s) - 1)) ELSE s

Trim(s) == TrimRight(TrimLeft(s))

-----------------------------------------------------------------------------
(* JavaScript numbers: NaN, or the decimal fraction num/den with den the   *)
(* least power of ten that makes num an integer.                           *)

NaN == [nan |-> TRUE, num |-> 0, den |-> 1]
Num(n, d) == [nan |-> FALSE, num |-> n, den |-> d]
Int2Num(n) == Num(n, 1)

\* isNaN(x)
IsNaN(x) == x.nan

\* x < y on numbers: false when either is NaN
NumLess(x, y) == ~x.nan /\ ~y.nan /\ x.num * y.den < y.num * x.den

DecimalDigits == {"0", "1", "2", "3", "4", "5", "6", "7", "8", "9"}

DigitValue(c) ==
    CASE c = "0" -> 0 [] c = "1" -> 1 [] c = "2" -> 2 [] c = "3" -> 3
      [] c = "4" -> 4 [] c = "5" -> 5 [] c = "6" -> 6 [] c = "7" -> 7
      [] c = "8" -> 8 [] c = "9" -> 9

IsDigits(s) == \A i \in 1..Len(s) : s[i] \in DecimalDigits

RECURSIVE DigitsValue(_)
DigitsValue(s) ==
    IF s = <<>> THEN 0
    ELSE 10 * DigitsValue(SubSeq(s, 1, Len(s) - 1)) + DigitValue(s[Len(s)])

RECURSIVE Pow10(_)
Pow10(n) == IF n = 0 THEN 1 ELSE 10 * Pow10(n - 1)

RECURSIVE DropTrailingZeros(_)
DropTrailingZeros(s) ==
    IF s # <<>> /\ s[Len(s)] = "0"
    THEN DropTrailingZeros(SubSeq(s, 1, Len(s) - 1)) ELSE s

\* Number(str) for strings made of decimal digits, "+", "-", ".", " " and
\* letters that start no numeric literal: white space is trimmed, the empty
\* string is 0, an optionally signed decimal literal is its value, anything
\* else is NaN.
Number(str) ==
    LET t        == Trim(str)
        signed   == t # <<>> /\ Head(t) \in {"+", "-"}
        sign     == IF signed /\ Head(t) = "-" THEN -1 ELSE 1
        body     == IF signed THEN Tail(t) ELSE t
        dots     == {i \in 1..Len(body) : body[i] = "."}
        dot      == IF dots = {} THEN Len(body) + 1 ELSE CHOOSE i \in dots : TRUE
        intPart  == SubSeq(body, 1, dot - 1)
        fracPart == DropTrailingZeros(SubSeq(body, dot + 1, Len(body)))
        literal  == /\ Cardinality(dots) <= 1
                    /\ IsDigits(intPart)
                    /\ IsDigits(SubSeq(body, dot + 1, Len(body)))
                    /\ Len(body) > Cardinality(dots)
    IN  IF t = <<>> THEN Int2Num(0)
        ELSE IF ~literal THEN NaN
        ELSE Num(sign * (DigitsValue(intPart) * Pow10(Len(fracPart))
                            + DigitsValue(fracPart)),
                 Pow10(Len(fracPart)))

-----------------------------------------------------------------------------
(* uniqueActiveApprovers (src/src/action.ts, lines 71-87).                 *)

Reviewers == {"user123", "user345"}

ReviewStates == {"APPROVED", "CHANGES_REQUESTED", "DISMISSED", "COMMENTED", "PENDING"}

\* submittedAt values, zero-padded so that string order is time order
Timestamps == {<<0, 1>>, <<0, 2>>, <<1, 0>>}

\* PullRequestReview; the body is never read
ReviewEvents ==
    [author : Reviewers, state : ReviewStates, submittedAt : Timestamps]

\* latestReviews[review.author.login] is defined
HasPreviousAuthorReview(latest, review) == review.author \in DOMAIN latest

\* previousAuthorReview?.timestamp ?? ''
PreviousTimestamp(latest, review) ==
    IF HasPreviousAuthorReview(latest, review)
    THEN latest[review.author].timestamp
    ELSE <<>>

\* mutant: a dismissal no longer replaces a recorded review
OverridingStates_NoDismissal == {"APPROVED", "CHANGES_REQUESTED"}

\* the states that can replace a reviewer's recorded review
OverridingStates == {"APPROVED", "DISMISSED", "CHANGES_REQUESTED"}

\* mutant: the state of the review is not looked at
IsUpdatedReview_AnyState(latest, review) ==
    StrLess(PreviousTimestamp(latest, review), review.submittedAt)

\* mutant: a review as new as the recorded one replaces it
IsUpdatedReview_OrEqual(latest, review) ==
    /\ ~StrLess(review.submittedAt, PreviousTimestamp(latest, review))
    /\ review.state \in OverridingStates

IsUpdatedReview(latest, review) ==
    /\ StrLess(PreviousTimestamp(latest, review), review.submittedAt)
    /\ review.state \in OverridingStates

\* mutant: every review is recorded, the last one of a reviewer wins
ShouldRecord_Always(latest, review) == TRUE

\* whether the loop body assigns latestReviews[login]
ShouldRecord(latest, review) ==
    ~HasPreviousAuthorReview(latest, review) \/ IsUpdatedReview(latest, review)

\* one iteration of the for-loop
RecordReview(latest, review) ==
    IF ShouldRecord(latest, review)
    THEN [login \in DOMAIN latest \cup {review.author} |->
             IF login = review.author
             THEN [timestamp |-> review.submittedAt, state |-> review.state]
             ELSE latest[login]]
    ELSE latest

\* mutant: the reduce starts from 1
CountApproved_FromOne(latest) ==
    1 + Cardinality({login \in DOMAIN latest : latest[login].state = "APPROVED"})

\* mutant: the reduce counts every entry that is no rejection
CountApproved_NotRejected(latest) ==
    Cardinality({login \in DOMAIN latest :
                    latest[login].state \notin {"CHANGES_REQUESTED", "DISMISSED"}})

\* mutant: the reduce counts every entry
CountApproved_EveryEntry(latest) == Cardinality(DOMAIN latest)

\* the closing reduce: one per entry whose state is APPROVED
CountApproved(latest) ==
    Cardinality({login \in DOMAIN latest : latest[login].state = "APPROVED"})

\* the empty object the loop starts from
NoReviews == [login \in {} |-> [timestamp |-> <<>>, state |-> "APPROVED"]]

RECURSIVE LatestReviewsOf(_)
LatestReviewsOf(list) ==
    IF list = <<>> THEN NoReviews
    ELSE RecordReview(LatestReviewsOf(SubSeq(list, 1, Len(list) - 1)), list[Len(list)])

uniqueActiveApprovers(list) == CountApproved(LatestReviewsOf(list))

AggInit ==
    /\ reviews = <<>>
    /\ latestReviews = NoReviews
    /\ aggPc = "loop"
    /\ aggResult = -1

\* the for-loop takes the next review of the list
AggIterate ==
    /\ aggPc = "loop"
    /\ Len(reviews) < MaxReviews
    /\ \E review \in ReviewEvents :
          /\ reviews' = Append(reviews, review)
          /\ latestReviews' = RecordReview(latestReviews, review)
    /\ UNCHANGED <<aggPc, aggResult, resVars, runVars>>

\* the list is exhausted: return the reduce
AggReturn ==
    /\ aggPc = "loop"
    /\ aggPc' = "returned"
    /\ aggResult' = CountApproved(latestReviews)
    /\ UNCHANGED <<reviews, latestReviews, resVars, runVars>>

-----------------------------------------------------------------------------
(* requiredReviewThreshold (src/src/action.ts, lines 102-118).             *)

\* the configured review-label-prefix values
LabelPrefixes == {<<"r", "/">>, <<"r">>}

\* what follows the prefix "r/" in a label name
LabelSuffixes ==
    { <<>>, <<"0">>, <<"1">>, <<"2">>, <<"3">>, <<"1", "0">>, <<"-", "3">>,
      <<"a", "b", "c">>, <<"2", ".", "5">> }

\* PullRequestLabel names: "r/<suffix>", and names that do not start with "r/"
LabelNames ==
    { <<"r", "/">> \o suffix : suffix \in LabelSuffixes }
        \cup { <<"b", "u", "g">>, <<"x", "r", "/", "2">>, <<"R", "/", "3">> }

Labels == [name : LabelNames]

\* the defaultReviews arguments
DefaultCounts == {Int2Num(-1000), Int2Num(0), Int2Num(2), Int2Num(100)}

\* every sequence over S of length at most n
SeqsUpTo(S, n) == UNION {[1..k -> S] : k \in 0..n}

RECURSIVE Filter(_, _)
Filter(names, prefix) ==
    IF names = <<>> THEN <<>>
    ELSE (IF StartsWith(Head(names), prefix) THEN <<Head(names)>> ELSE <<>>)
            \o Filter(Tail(names), prefix)

\* labels.map(label => label.name).filter(name => name.startsWith(labelPrefix))
MatchingLabels(labels, labelPrefix) ==
    Filter([i \in 1..Len(labels) |-> labels[i].name], labelPrefix)

\* mutant: only NaN is replaced, a number below 1 is kept
NormalizeCount_NaNOnly(num) == IF IsNaN(num) THEN Int2Num(0) ELSE num

\* (isNaN(num) || num < 1) ? 0 : num
NormalizeCount(num) ==
    IF IsNaN(num) \/ NumLess(num, Int2Num(1)) THEN Int2Num(0) ELSE num

\* label.replace(labelPrefix, '') then Number(suffix) then the normalisation
ReviewerCount(label, labelPrefix) ==
    NormalizeCount(Number(ReplaceFirstWithEmpty(label, labelPrefix)))

\* mutant: the first count is taken
MathMax_First(counts) == counts[1]

\* Math.max of a non-empty list of numbers none of which is NaN
RECURSIVE MathMax(_)
MathMax(counts) ==
    IF Len(counts) = 1 THEN counts[1]
    ELSE LET rest == MathMax(Tail(counts))
         IN  IF NumLess(counts[1], rest) THEN rest ELSE counts[1]

\* mutant: the no-match branch warns and returns 0
NoLabelMatched_Zero(defaultCount) ==
    [value |-> Int2Num(0), warnings |-> <<"no-label-matched">>]

\* the return of the no-match branch, with its core.warning
NoLabelMatched(defaultCount) ==
    [value |-> defaultCount, warnings |-> <<"no-label-matched">>]

\* the return of the matching branch
MaximumOf(matchingLabels, labelPrefix) ==
    [value    |-> MathMax([i \in 1..Len(matchingLabels) |->
                              ReviewerCount(matchingLabels[i], labelPrefix)]),
     warnings |-> <<>>]

requiredReviewThreshold(labels, labelPrefix, defaultCount) ==
    LET matchingLabels == MatchingLabels(labels, labelPrefix)
    IN  IF Len(matchingLabels) = 0
        THEN NoLabelMatched(defaultCount)
        ELSE MaximumOf(matchingLabels, labelPrefix)

ResInit ==
    /\ resArgs \in [labels : SeqsUpTo(Labels, MaxLabels),
                    labelPrefix : LabelPrefixes,
                    defaultReviews : DefaultCounts]
    /\ resPc = "call"
    /\ resResult = NaN
    /\ resWarnings = <<>>

\* the call: the returned number and the warnings it emitted
ResCall ==
    /\ resPc = "call"
    /\ LET out == requiredReviewThreshold(resArgs.labels, resArgs.labelPrefix,
                                          resArgs.defaultReviews)
       IN  /\ resResult' = out.value
           /\ resWarnings' = out.warnings
    /\ resPc' = "returned"
    /\ UNCHANGED <<resArgs, aggVars, runVars>>

-----------------------------------------------------------------------------
(* run (src/src/action.ts, lines 120-176) and main (src/src/main.ts).      *)

PullRequestPrefix == <<"p", "u", "l", "l", "_", "r", "e", "q", "u", "e", "s", "t">>

\* github.context.eventName
EventNames ==
    { PullRequestPrefix, PullRequestPrefix \o <<"_", "r", "e", "v", "i", "e", "w">>,
      <<"p", "u", "s", "h">> }

\* the raw values of the three inputs
PrefixInputs == {<<>>, <<" ">>, <<"r", "/">>}
DefaultCountInputs ==
    {<<>>, <<" ">>, <<"a", "b", "c">>, <<"-", "1">>, <<"0">>, <<"1">>, <<"2">>}
TokenInputs == {<<>>, <<"t", "o", "k">>}

\* PullRequestReviewDecision
ReviewDecisions == {"APPROVED", "CHANGES_REQUESTED", "REVIEW_REQUIRED"}

\* the reviews upstream returns: in submission order, the i-th at time "0i"
FetchedReviewStates == {"APPROVED", "CHANGES_REQUESTED"}
FetchedReviews ==
    UNION { { [i \in 1..k |-> [author |-> who[i], state |-> what[i],
                               submittedAt |-> <<0, i>>]] :
                who \in [1..k -> Reviewers], what \in [1..k -> FetchedReviewStates] } :
            k \in 0..MaxFetchedReviews }

\* the labels upstream returns
FetchedLabelNames ==
    { <<"r", "/", "1">>, <<"r", "/", "3">>, <<"r", "/", "a", "b", "c">>,
      <<"b", "u", "g">> }
FetchedLabels == SeqsUpTo([name : FetchedLabelNames], MaxFetchedLabels)

\* PullRequestReviewsAndLabels
PullRequests ==
    [reviewDecision : ReviewDecisions,
     reviews : [nodes : FetchedReviews],
     labels : [nodes : FetchedLabels]]

NoPullRequest ==
    [reviewDecision : {"NONE"}, reviews : [nodes : {<<>>}], labels : [nodes : {<<>>}]]

\* core.getInput(name, { required: true }): throws on an empty value, else trims
InputMissing(raw) == raw = <<>>
GetInput(raw) == Trim(raw)

\* mutant: the decision is compared with another member of the enumeration
ChangesRequested_WrongDecision(pr) == pr.reviewDecision = "REVIEW_REQUIRED"

\* pullRequest.reviewDecision === 'CHANGES_REQUESTED'
ChangesRequested(pr) == pr.reviewDecision = "CHANGES_REQUESTED"

\* mutant: a negative default count is accepted
InvalidDefaultCount_NaNOnly(count) == IsNaN(count)

\* the condition under which getDefaultReviewCount throws
InvalidDefaultCount(count) == IsNaN(count) \/ NumLess(count, Int2Num(0))

\* mutant: as many approvals as required is not enough
BelowThreshold_OrEqual(count, required) == ~NumLess(required, Int2Num(count))

\* mutant: a threshold below 1 fails the run
BelowThreshold_OrBelowOne(count, required) ==
    NumLess(Int2Num(count), required) \/ NumLess(required, Int2Num(1))

\* approveCount < requiredApprovals
BelowThreshold(count, required) == NumLess(Int2Num(count), required)

\* requiredApprovals < 1
ThresholdBelowOne(required) == NumLess(required, Int2Num(1))

\* requiredApprovals < defaultReviews
ThresholdBelowDefault(required, defaultCount) == NumLess(required, defaultCount)

RunInit ==
    /\ pc = "checkEvent"
    /\ thrown = "none"
    /\ env \in [eventName : EventNames, prefix : PrefixInputs,
                defaultCount : DefaultCountInputs, token : TokenInputs]
    /\ upstream = 0
    /\ pullRequest \in NoPullRequest
    /\ labelFormat = <<>>
    /\ defaultReviews = NaN
    /\ requiredApprovals = NaN
    /\ approveCount = -1
    /\ calls = {}
    /\ warnings = <<>>
    /\ failures = <<>>
    /\ infos = 0

\* throw new Error(...): control passes to the catch of main
Throw(error) ==
    /\ pc' = "catch"
    /\ thrown' = error

\* lines 138-140
RunCheckEvent ==
    /\ pc = "checkEvent"
    /\ IF StartsWith(env.eventName, PullRequestPrefix)
       THEN pc' = "labelFormat" /\ UNCHANGED thrown
       ELSE Throw("event-not-supported")
    /\ UNCHANGED <<env, upstream, pullRequest, labelFormat, defaultReviews,
                   requiredApprovals, approveCount, calls, warnings, failures, infos>>
    /\ UNCHANGED <<aggVars, resVars>>

\* line 142
RunLabelFormat ==
    /\ pc = "labelFormat"
    /\ IF InputMissing(env.prefix)
       THEN Throw("input-required") /\ UNCHANGED labelFormat
       ELSE /\ labelFormat' = GetInput(env.prefix)
            /\ pc' = "defaultReviews"
            /\ UNCHANGED thrown
    /\ UNCHANGED <<env, upstream, pullRequest, defaultReviews,
                   requiredApprovals, approveCount, calls, warnings, failures, infos>>
    /\ UNCHANGED <<aggVars, resVars>>

\* line 143, getDefaultReviewCount (lines 129-135)
RunDefaultReviewCount ==
    /\ pc = "defaultReviews"
    /\ IF InputMissing(env.defaultCount)
       THEN Throw("input-required") /\ UNCHANGED defaultReviews
       ELSE IF InvalidDefaultCount(Number(GetInput(env.defaultCount)))
       THEN Throw("default-count-invalid") /\ UNCHANGED defaultReviews
       ELSE /\ defaultReviews' = Number(GetInput(env.defaultCount))
            /\ pc' = "octokit"
            /\ UNCHANGED thrown
    /\ UNCHANGED <<env, upstream, pullRequest, labelFormat,
                   requiredApprovals, approveCount, calls, warnings, failures, infos>>
    /\ UNCHANGED <<aggVars, resVars>>

\* line 150
RunOctokit ==
    /\ pc = "octokit"
    /\ IF InputMissing(env.token)
       THEN Throw("input-required")
       ELSE pc' = "getPullRequest" /\ UNCHANGED thrown
    /\ UNCHANGED <<env, upstream, pullRequest, labelFormat, defaultReviews,
                   requiredApprovals, approveCount, calls, warnings, failures, infos>>
    /\ UNCHANGED <<aggVars, resVars>>

\* line 151, getPullRequest (lines 120-127): the query answers or rejects
RunGetPullRequest ==
    /\ pc = "getPullRequest"
    /\ upstream' = upstream + 1
    /\ \/ \E answer \in PullRequests :
             /\ pullRequest' = answer
             /\ pc' = "reviewDecision"
             /\ UNCHANGED thrown
       \/ Throw("request-failed") /\ UNCHANGED pullRequest
    /\ UNCHANGED <<env, labelFormat, defaultReviews,
                   requiredApprovals, approveCount, calls, warnings, failures, infos>>
    /\ UNCHANGED <<aggVars, resVars>>

\* lines 152-154
RunReviewDecision ==
    /\ pc = "reviewDecision"
    /\ IF ChangesRequested(pullRequest)
       THEN Throw("changes-requested")
       ELSE pc' = "requiredApprovals" /\ UNCHANGED thrown
    /\ UNCHANGED <<env, upstream, pullRequest, labelFormat, defaultReviews,
                   requiredApprovals, approveCount, calls, warnings, failures, infos>>
    /\ UNCHANGED <<aggVars, resVars>>

\* line 159
RunRequiredApprovals ==
    /\ pc = "requiredApprovals"
    /\ LET out == requiredReviewThreshold(pullRequest.labels.nodes, labelFormat,
                                          defaultReviews)
       IN  /\ requiredApprovals' = out.value
           /\ warnings' = warnings \o out.warnings
    /\ calls' = calls \cup {"requiredReviewThreshold"}
    /\ pc' = "approveCount"
    /\ UNCHANGED <<thrown, env, upstream, pullRequest, labelFormat, defaultReviews,
                   approveCount, failures, infos>>
    /\ UNCHANGED <<aggVars, resVars>>

\* line 160
RunApproveCount ==
    /\ pc = "approveCount"
    /\ approveCount' = uniqueActiveApprovers(pullRequest.reviews.nodes)
    /\ calls' = calls \cup {"uniqueActiveApprovers"}
    /\ pc' = "warnBelowOne"
    /\ UNCHANGED <<thrown, env, upstream, pullRequest, labelFormat, defaultReviews,
                   requiredApprovals, warnings, failures, infos>>
    /\ UNCHANGED <<aggVars, resVars>>

\* lines 164-166
RunWarnBelowOne ==
    /\ pc = "warnBelowOne"
    /\ warnings' = IF ThresholdBelowOne(requiredApprovals)
                   THEN Append(warnings, "threshold-below-one")
                   ELSE warnings
    /\ pc' = "warnBelowDefault"
    /\ UNCHANGED <<thrown, env, upstream, pullRequest, labelFormat, defaultReviews,
                   requiredApprovals, approveCount, calls, failures, infos>>
    /\ UNCHANGED <<aggVars, resVars>>

\* lines 167-169
RunWarnBelowDefault ==
    /\ pc = "warnBelowDefault"
    /\ warnings' = IF ThresholdBelowDefault(requiredApprovals, defaultReviews)
                   THEN Append(warnings, "threshold-below-default")
                   ELSE warnings
    /\ pc' = "compare"
    /\ UNCHANGED <<thrown, env, upstream, pullRequest, labelFormat, defaultReviews,
                   requiredApprovals, approveCount, calls, failures, infos>>
    /\ UNCHANGED <<aggVars, resVars>>

\* mutant: the else is missing, core.info is called after setFailed too
RunCompare_NoElse ==
    /\ pc = "compare"
    /\ failures' = IF BelowThreshold(approveCount, requiredApprovals)
                   THEN Append(failures, "not-enough-approvals")
                   ELSE failures
    /\ infos' = infos + 1
    /\ pc' = "done"
    /\ UNCHANGED <<thrown, env, upstream, pullRequest, labelFormat, defaultReviews,
                   requiredApprovals, approveCount, calls, warnings>>
    /\ UNCHANGED <<aggVars, resVars>>

\* lines 171-175: run resolves, main ends
RunCompare ==
    /\ pc = "compare"
    /\ IF BelowThreshold(approveCount, requiredApprovals)
       THEN failures' = Append(failures, "not-enough-approvals") /\ UNCHANGED infos
       ELSE infos' = infos + 1 /\ UNCHANGED failures
    /\ pc' = "done"
    /\ UNCHANGED <<thrown, env, upstream, pullRequest, labelFormat, defaultReviews,
                   requiredApprovals, approveCount, calls, warnings>>
    /\ UNCHANGED <<aggVars, resVars>>

\* main.ts lines 8-11: every error thrown by run is reported with setFailed
MainCatch ==
    /\ pc = "catch"
    /\ failures' = Append(failures, thrown)
    /\ thrown' = "none"
    /\ pc' = "done"
    /\ UNCHANGED <<env, upstream, pullRequest, labelFormat, defaultReviews,
                   requiredApprovals, approveCount, calls, warnings, infos>>
    /\ UNCHANGED <<aggVars, resVars>>

-----------------------------------------------------------------------------
(* The specifications. Each one runs one of the three pieces; the          *)
(* variables of the other two stay at rest.                                *)

AggAtRest ==
    /\ reviews = <<>>
    /\ latestReviews = NoReviews
    /\ aggPc = "rest"
    /\ aggResult = -1

ResAtRest ==
    /\ resArgs = [labels |-> <<>>, labelPrefix |-> <<>>, defaultReviews |-> NaN]
    /\ resPc = "rest"
    /\ resResult = NaN
    /\ resWarnings = <<>>

RunAtRest ==
    /\ pc = "rest"
    /\ thrown = "none"
    /\ env = [eventName |-> <<>>, prefix |-> <<>>, defaultCount |-> <<>>, token |-> <<>>]
    /\ upstream = 0
    /\ pullRequest \in NoPullRequest
    /\ labelFormat = <<>>
    /\ defaultReviews = NaN
    /\ requiredApprovals = NaN
    /\ approveCount = -1
    /\ calls = {}
    /\ warnings = <<>>
    /\ failures = <<>>
    /\ infos = 0

\* main: the whole action
Init == RunInit /\ AggAtRest /\ ResAtRest

Next ==
    \/ RunCheckEvent
    \/ RunLabelFormat
    \/ RunDefaultReviewCount
    \/ RunOctokit
    \/ RunGetPullRequest
    \/ RunReviewDecision
    \/ RunRequiredApprovals
    \/ RunApproveCount
    \/ RunWarnBelowOne
    \/ RunWarnBelowDefault
    \/ RunCompare
    \/ MainCatch

Spec == Init /\ [][Next]_vars

\* uniqueActiveApprovers on every review list up to MaxReviews
InitAggregator == AggInit /\ ResAtRest /\ RunAtRest

NextAggregator == AggIterate \/ AggReturn

SpecAggregator == InitAggregator /\ [][NextAggregator]_vars

\* requiredReviewThreshold on every argument triple
InitResolver == ResInit /\ AggAtRest /\ RunAtRest

NextResolver == ResCall

SpecResolver == InitResolver /\ [][NextResolver]_vars

-----------------------------------------------------------------------------
(* Claims on uniqueActiveApprovers, checked under SpecAggregator.          *)

\* the list before its last review
Front(list) == SubSeq(list, 1, Len(list) - 1)
Last(list) == list[Len(list)]

StrictlyIncreasing(list) ==
    \A i \in 1..(Len(list) - 1) : StrLess(list[i].submittedAt, list[i + 1].submittedAt)

\* the positions of a reviewer's approvals, dismissals and change requests
DecidingPositions(list, who) ==
    {i \in 1..Len(list) :
        /\ list[i].author = who
        /\ list[i].state \in {"APPROVED", "DISMISSED", "CHANGES_REQUESTED"}}

\* the reviewers whose last such review is an approval
LastDecisionApproves(list) ==
    {who \in Reviewers :
        \E i \in DecidingPositions(list, who) :
            /\ list[i].state = "APPROVED"
            /\ \A j \in DecidingPositions(list, who) : j <= i}

\* the reviewers the reduce counts
Counted(latest) == {who \in DOMAIN latest : latest[who].state = "APPROVED"}

\* C1: on a list in strictly increasing submittedAt order the function returns
\* the number of distinct reviewers whose last APPROVED, DISMISSED or
\* CHANGES_REQUESTED review is APPROVED; a reviewer's several approvals count once.
C1_CountsLastDecisions ==
    (aggPc = "returned" /\ StrictlyIncreasing(reviews))
        => aggResult = Cardinality(LastDecisionApproves(reviews))

\* the list of the first test, shortened to three reviews: both reviewers approve
C1_Witness ==
    /\ aggPc = "returned"
    /\ reviews = << [author |-> "user123", state |-> "CHANGES_REQUESTED", submittedAt |-> <<0, 1>>],
                    [author |-> "user345", state |-> "APPROVED", submittedAt |-> <<0, 2>>],
                    [author |-> "user123", state |-> "APPROVED", submittedAt |-> <<1, 0>>] >>
    /\ aggResult = 2

\* the last review of the list is by a counted reviewer, requests changes or
\* dismisses, and is newer than every earlier review of that reviewer
RevokesApproval(list) ==
    /\ list # <<>>
    /\ Last(list).state \in {"CHANGES_REQUESTED", "DISMISSED"}
    /\ Last(list).author \in Counted(LatestReviewsOf(Front(list)))
    /\ \A i \in 1..(Len(list) - 1) :
          list[i].author = Last(list).author
              => StrLess(list[i].submittedAt, Last(list).submittedAt)

\* C2: appending to any list a CHANGES_REQUESTED or DISMISSED review by a counted
\* reviewer, newer than all that reviewer's earlier reviews, lowers the result by
\* exactly one and leaves every other reviewer's contribution as it was.
C2_LaterRejectionRevokes ==
    RevokesApproval(reviews)
        => /\ CountApproved(latestReviews) = uniqueActiveApprovers(Front(reviews)) - 1
           /\ aggPc = "returned" => aggResult = uniqueActiveApprovers(Front(reviews)) - 1
           /\ \A who \in Reviewers \ {Last(reviews).author} :
                 who \in Counted(latestReviews)
                     <=> who \in Counted(LatestReviewsOf(Front(reviews)))

\* both approve, then user123 dismisses: one approver is left
C2_Witness ==
    /\ aggPc = "returned"
    /\ RevokesApproval(reviews)
    /\ Len(reviews) = 3
    /\ Last(reviews).state = "DISMISSED"
    /\ uniqueActiveApprovers(Front(reviews)) = 2
    /\ aggResult = 1

\* C3: appending a COMMENTED or PENDING review, by any reviewer and with any
\* submittedAt, leaves the result unchanged and replaces no recorded review.
C3_CommentsLeaveResult ==
    (reviews # <<>> /\ Last(reviews).state \in {"COMMENTED", "PENDING"})
        => /\ CountApproved(latestReviews) = uniqueActiveApprovers(Front(reviews))
           /\ aggPc = "returned" => aggResult = uniqueActiveApprovers(Front(reviews))
           /\ \A who \in DOMAIN LatestReviewsOf(Front(reviews)) :
                 latestReviews[who] = LatestReviewsOf(Front(reviews))[who]

\* an approval, then a pending review of the same reviewer at the newest time
C3_Witness ==
    /\ aggPc = "returned"
    /\ reviews = << [author |-> "user123", state |-> "APPROVED", submittedAt |-> <<0, 1>>],
                    [author |-> "user123", state |-> "PENDING", submittedAt |-> <<1, 0>>] >>
    /\ aggResult = 1

-----------------------------------------------------------------------------
(* Claims on requiredReviewThreshold, checked under SpecResolver.          *)

\* name starts with prefix
HasPrefix(name, prefix) ==
    /\ Len(name) >= Len(prefix)
    /\ \A i \in 1..Len(prefix) : name[i] = prefix[i]

\* the names of the labels that start with the prefix
MatchingNames(args) ==
    {args.labels[i].name : i \in {j \in 1..Len(args.labels) :
                                     HasPrefix(args.labels[j].name, args.labelPrefix)}}

\* what is left of a matching name after the prefix
SuffixOf(name, prefix) == SubSeq(name, Len(prefix) + 1, Len(name))

\* the value a suffix stands for: the number it spells when that is at least 1,
\* and 0 for every other suffix of the model
SuffixValue(suffix) ==
    CASE suffix = <<"1">> -> Int2Num(1)
      [] suffix = <<"2">> -> Int2Num(2)
      [] suffix = <<"3">> -> Int2Num(3)
      [] suffix = <<"1", "0">> -> Int2Num(10)
      [] suffix = <<"2", ".", "5">> -> Num(25, 10)
      [] OTHER -> Int2Num(0)

MatchingValues(args) ==
    {SuffixValue(SuffixOf(name, args.labelPrefix)) : name \in MatchingNames(args)}

\* C4: with a matching label the function returns the maximum of the values of
\* the matching labels: not their sum, not the first, not the default, whatever
\* the default is and whatever the labels that do not match.
C4_MaximumOfMatching ==
    (resPc = "returned" /\ MatchingNames(resArgs) # {})
        => /\ resResult \in MatchingValues(resArgs)
           /\ \A value \in MatchingValues(resArgs) : ~NumLess(resResult, value)

\* "r/2" then "r/10" with default 100: 10, below the default
C4_Witness ==
    /\ resPc = "returned"
    /\ resArgs = [labels |-> << [name |-> <<"r", "/", "2">>],
                                [name |-> <<"r", "/", "1", "0">>] >>,
                  labelPrefix |-> <<"r", "/">>,
                  defaultReviews |-> Int2Num(100)]
    /\ resResult = Int2Num(10)

\* C5: with no matching label (the empty list included) the function returns
\* defaultReviews as given and warns exactly once; with a matching label it
\* does not warn.
C5_DefaultWithOneWarning ==
    resPc = "returned"
        => IF MatchingNames(resArgs) = {}
           THEN /\ resResult = resArgs.defaultReviews
                /\ resWarnings = <<"no-label-matched">>
           ELSE resWarnings = <<>>

\* no label at all, default 100
C5_Witness ==
    /\ resPc = "returned"
    /\ resArgs = [labels |-> <<>>, labelPrefix |-> <<"r", "/">>,
                  defaultReviews |-> Int2Num(100)]
    /\ resResult = Int2Num(100)
    /\ resWarnings = <<"no-label-matched">>

\* the suffixes that spell no number, are empty, or spell a number below 1
InvalidOrLowSuffixes ==
    { <<>>, <<"0">>, <<"-", "3">>, <<"a", "b", "c">> }
        \cup { <<"/">> \o suffix : suffix \in LabelSuffixes }

\* C6: a matching label whose suffix is not a number, is empty or is below 1
\* counts as 0 and not as the default: when every matching label is such a
\* label the function returns 0, even with a default above 0.
C6_InvalidCountsAsZero ==
    ( /\ resPc = "returned"
      /\ MatchingNames(resArgs) # {}
      /\ \A name \in MatchingNames(resArgs) :
            SuffixOf(name, resArgs.labelPrefix) \in InvalidOrLowSuffixes )
        => resResult = Int2Num(0)

\* "r/abc" and "r/" (the prefix itself) with default 2: 0
C6_Witness ==
    /\ resPc = "returned"
    /\ resArgs = [labels |-> << [name |-> <<"r", "/", "a", "b", "c">>],
                                [name |-> <<"r", "/">>] >>,
                  labelPrefix |-> <<"r", "/">>,
                  defaultReviews |-> Int2Num(2)]
    /\ resResult = Int2Num(0)

-----------------------------------------------------------------------------
(* Claims on run and main, checked under Spec.                             *)

\* the upstream query has answered
Fetched == pullRequest \notin NoPullRequest

UpstreamChangesRequested == pullRequest.reviewDecision = "CHANGES_REQUESTED"

\* the two decision functions on what was fetched and configured
FetchedApprovers == uniqueActiveApprovers(pullRequest.reviews.nodes)
FetchedThreshold ==
    requiredReviewThreshold(pullRequest.labels.nodes, labelFormat, defaultReviews).value
FetchedShortfall == NumLess(Int2Num(FetchedApprovers), FetchedThreshold)

Occurrences(list, what) == Cardinality({i \in 1..Len(list) : list[i] = what})

\* C7: after a successful fetch the run ends in failure exactly when upstream
\* says CHANGES_REQUESTED or the approvers are fewer than the threshold;
\* otherwise it ends in success and setFailed is never called.
C7_FailsIffBlocked ==
    Fetched =>
        /\ pc = "done" =>
              /\ failures # <<>> <=> (UpstreamChangesRequested \/ FetchedShortfall)
              /\ infos = 1 <=> ~(UpstreamChangesRequested \/ FetchedShortfall)
        /\ ~(UpstreamChangesRequested \/ FetchedShortfall) => failures = <<>>

\* one approver against a threshold of 1: success
C7_Witness ==
    /\ pc = "done"
    /\ Fetched
    /\ FetchedApprovers = 1
    /\ FetchedThreshold = Int2Num(1)
    /\ failures = <<>>
    /\ infos = 1

\* C8: with CHANGES_REQUESTED upstream the run throws at once: neither decision
\* function runs, no warning is emitted, and the outcome is failure whatever
\* the labels and the approvals.
C8_ChangesRequestedShortCircuits ==
    (Fetched /\ UpstreamChangesRequested) =>
        /\ pc \in {"reviewDecision", "catch", "done"}
        /\ calls = {}
        /\ warnings = <<>>
        /\ infos = 0
        /\ pc = "done" => failures = <<"changes-requested">>

\* two approvers, no label, default 0: the threshold would have been met
C8_Witness ==
    /\ pc = "done"
    /\ Fetched
    /\ UpstreamChangesRequested
    /\ FetchedApprovers = 2
    /\ pullRequest.labels.nodes = <<>>
    /\ env.defaultCount = <<"0">>
    /\ failures = <<"changes-requested">>

\* an event that is no pull_request event, an empty prefix or token, or a
\* default count that is missing, not a number or negative
InvalidConfiguration ==
    \/ env.eventName = <<"p", "u", "s", "h">>
    \/ env.prefix = <<>>
    \/ env.token = <<>>
    \/ env.defaultCount \in {<<>>, <<"a", "b", "c">>, <<"-", "1">>}

\* C9: upstream is called only when the event, the prefix, the default count
\* and the token are all valid; an invalid one ends the run in failure with no
\* upstream call.
C9_ValidatedBeforeFetch ==
    /\ pc = "getPullRequest" => ~InvalidConfiguration
    /\ upstream > 0 => ~InvalidConfiguration
    /\ (InvalidConfiguration /\ pc = "done") =>
          /\ upstream = 0
          /\ Len(failures) = 1
          /\ infos = 0

\* all is valid but the default count, which is negative
C9_Witness ==
    /\ pc = "done"
    /\ env.eventName = PullRequestPrefix
    /\ env.prefix = <<"r", "/">>
    /\ env.token # <<>>
    /\ env.defaultCount = <<"-", "1">>
    /\ upstream = 0
    /\ failures = <<"default-count-invalid">>

\* C10: a threshold below 1, or below the default, gives one warning each and
\* no failure of its own: the outcome is decided by comparing the approvals
\* with the threshold, so a threshold of 0 passes unless upstream says
\* CHANGES_REQUESTED.
C10_LowThresholdOnlyWarns ==
    (pc = "done" /\ Fetched /\ ~UpstreamChangesRequested) =>
        /\ Occurrences(warnings, "threshold-below-one")
              = IF NumLess(requiredApprovals, Int2Num(1)) THEN 1 ELSE 0
        /\ Occurrences(warnings, "threshold-below-default")
              = IF NumLess(requiredApprovals, defaultReviews) THEN 1 ELSE 0
        /\ failures = IF NumLess(Int2Num(approveCount), requiredApprovals)
                      THEN <<"not-enough-approvals">> ELSE <<>>
        /\ requiredApprovals = Int2Num(0) => (failures = <<>> /\ infos = 1)

\* the label "r/abc" resolves to 0 under a default of 2; nobody approves
C10_Witness ==
    /\ pc = "done"
    /\ Fetched
    /\ pullRequest.labels.nodes = << [name |-> <<"r", "/", "a", "b", "c">>] >>
    /\ requiredApprovals = Int2Num(0)
    /\ defaultReviews = Int2Num(2)
    /\ approveCount = 0
    /\ warnings = <<"threshold-below-one", "threshold-below-default">>
    /\ failures = <<>>
    /\ infos = 1

-----------------------------------------------------------------------------
(* Further claims on uniqueActiveApprovers, checked under SpecAggregator.  *)

\* C11: the function is total: on every list (any states, empty, duplicates,
\* tied or unordered timestamps) the loop can always go on to its return, and
\* the result is an integer from 0 to the number of reviews; 0 on the empty list.
C11_TotalAndBounded ==
    /\ aggPc = "loop" => ENABLED AggReturn
    /\ aggPc = "returned" =>
          /\ aggResult \in 0..Len(reviews)
          /\ reviews = <<>> => aggResult = 0

\* a review twice, then an older one: tied and unordered timestamps
C11_Witness ==
    /\ aggPc = "returned"
    /\ Len(reviews) = 3
    /\ reviews[1] = reviews[2]
    /\ StrLess(reviews[3].submittedAt, reviews[2].submittedAt)
    /\ aggResult \in 0..3

\* the reviewer's reviews in the list are all COMMENTED or PENDING
OnlyComments(list, who) ==
    \A i \in 1..Len(list) :
        list[i].author = who => list[i].state \in {"COMMENTED", "PENDING"}

\* the list without the reviews of a reviewer
RECURSIVE Without(_, _)
Without(list, who) ==
    IF list = <<>> THEN <<>>
    ELSE (IF Head(list).author = who THEN <<>> ELSE <<Head(list)>>)
            \o Without(Tail(list), who)

\* C12: a reviewer whose reviews are all COMMENTED or PENDING adds nothing to
\* the result, however many they are and wherever they stand: the reviewer is
\* not counted and the result is that of the list without those reviews.
C12_CommentersAddNothing ==
    \A who \in Reviewers :
        OnlyComments(reviews, who) =>
            /\ who \notin Counted(latestReviews)
            /\ CountApproved(latestReviews)
                  = Cardinality(Counted(LatestReviewsOf(Without(reviews, who))))
            /\ aggPc = "returned" =>
                  aggResult = Cardinality(Counted(LatestReviewsOf(Without(reviews, who))))

\* user123 comments before and after the approval of user345
C12_Witness ==
    /\ aggPc = "returned"
    /\ Len(reviews) = 3
    /\ reviews[1].author = "user123" /\ reviews[1].state = "COMMENTED"
    /\ reviews[2].author = "user345" /\ reviews[2].state = "APPROVED"
    /\ reviews[3].author = "user123" /\ reviews[3].state = "PENDING"
    /\ aggResult = 1

\* no reviewer has two APPROVED, DISMISSED or CHANGES_REQUESTED reviews with
\* the same submittedAt
NoTiedDecisions(list) ==
    \A i, j \in 1..Len(list) :
        (i # j /\ list[i].author = list[j].author
               /\ i \in DecidingPositions(list, list[i].author)
               /\ j \in DecidingPositions(list, list[j].author))
            => list[i].submittedAt # list[j].submittedAt

\* the reviewers whose such review with the greatest submittedAt is an approval
NewestDecisionApproves(list) ==
    {who \in Reviewers :
        \E i \in DecidingPositions(list, who) :
            /\ list[i].state = "APPROVED"
            /\ \A j \in DecidingPositions(list, who) :
                  j # i => StrLess(list[j].submittedAt, list[i].submittedAt)}

\* C13: the result does not depend on the order of the list: without tied
\* decisions of one reviewer it is the number of reviewers whose APPROVED,
\* DISMISSED or CHANGES_REQUESTED review with the greatest submittedAt is
\* APPROVED, also when a COMMENTED or PENDING review of the reviewer comes first.
C13_OrderIndependent ==
    (aggPc = "returned" /\ NoTiedDecisions(reviews))
        => aggResult = Cardinality(NewestDecisionApproves(reviews))

\* C14: at every step each recorded state is APPROVED, DISMISSED or
\* CHANGES_REQUESTED: a COMMENTED or PENDING review creates no entry.
C14_NoCommentRecorded ==
    \A who \in DOMAIN latestReviews :
        latestReviews[who].state \in {"APPROVED", "DISMISSED", "CHANGES_REQUESTED"}

\* the recorded reviews before the last review of the list was iterated
Before(list) == LatestReviewsOf(Front(list))

\* the last review of the list is an approval, dismissal or change request of
\* a reviewer whose recorded review is such a review with the same submittedAt
TiesWithRecorded(list) ==
    /\ list # <<>>
    /\ Last(list).state \in {"APPROVED", "DISMISSED", "CHANGES_REQUESTED"}
    /\ Last(list).author \in DOMAIN Before(list)
    /\ Before(list)[Last(list).author].state
          \in {"APPROVED", "DISMISSED", "CHANGES_REQUESTED"}
    /\ Before(list)[Last(list).author].timestamp = Last(list).submittedAt

\* C15: replacement needs a strictly greater submittedAt: a second approval,
\* dismissal or change request of a reviewer with the submittedAt of the
\* recorded one does not replace it, so the first seen of a tie decides.
C15_TieKeepsFirst ==
    TiesWithRecorded(reviews)
        => /\ latestReviews = Before(reviews)
           /\ CountApproved(latestReviews) = uniqueActiveApprovers(Front(reviews))
           /\ aggPc = "returned" => aggResult = uniqueActiveApprovers(Front(reviews))

\* an approval and a dismissal of user123 at the same time: user123 counts
C15_Witness ==
    /\ aggPc = "returned"
    /\ reviews = << [author |-> "user123", state |-> "APPROVED", submittedAt |-> <<0, 2>>],
                    [author |-> "user123", state |-> "DISMISSED", submittedAt |-> <<0, 2>>] >>
    /\ aggResult = 1

\* the reviewers with an APPROVED review in the list
Approvers(list) ==
    {list[i].author : i \in {j \in 1..Len(list) : list[j].state = "APPROVED"}}

\* C17: only a reviewer with an APPROVED review in the list is counted, and
\* once: the result is at most the number of distinct such reviewers.
C17_CountedHaveApproved ==
    /\ Counted(latestReviews) \subseteq Approvers(reviews)
    /\ CountApproved(latestReviews) <= Cardinality(Approvers(reviews))
    /\ aggPc = "returned" => aggResult <= Cardinality(Approvers(reviews))

\* user123 approves twice and user345 only comments: the result is 1
C17_Witness ==
    /\ aggPc = "returned"
    /\ Len(reviews) = 3
    /\ Approvers(reviews) = {"user123"}
    /\ Cardinality({i \in 1..3 : reviews[i].state = "APPROVED"}) = 2
    /\ \E i \in 1..3 : reviews[i].author = "user345"
    /\ aggResult = 1

-----------------------------------------------------------------------------
(* Further claims on requiredReviewThreshold (SpecResolver) and on main    *)
(* (Spec).                                                                 *)

\* the suffixes of the model that are integer literals
IntegerSuffixes ==
    { <<"0">>, <<"1">>, <<"2">>, <<"3">>, <<"1", "0">>, <<"-", "3">> }

\* C16: with a matching label the function returns a non-negative integer,
\* never NaN nor a fraction: a suffix that is no integer literal counts as 0.
C16_NonNegativeInteger ==
    (resPc = "returned" /\ MatchingNames(resArgs) # {})
        => /\ ~IsNaN(resResult)
           /\ resResult.den = 1
           /\ resResult.num >= 0
           /\ (\A name \in MatchingNames(resArgs) :
                  SuffixOf(name, resArgs.labelPrefix) \notin IntegerSuffixes)
                 => resResult = Int2Num(0)

\* C18: every execution of main ends in exactly one outcome: one setFailed
\* call or one core.info call, never both, never neither. Before the end
\* nothing is reported and a next step exists (the two steps that call the
\* pure functions go on because the functions are total: their results are
\* defined on what was fetched); an error thrown inside run is in flight only
\* at main's catch, which handles it, and none is left at the end.
C18_ExactlyOneOutcome ==
    /\ pc # "done" =>
          /\ failures = <<>>
          /\ infos = 0
    /\ pc \notin {"done", "requiredApprovals", "approveCount"} => ENABLED Next
    /\ pc = "requiredApprovals" =>
          LET out == requiredReviewThreshold(pullRequest.labels.nodes,
                                             labelFormat, defaultReviews)
          IN  /\ IsNaN(out.value) \in BOOLEAN
              /\ Len(out.warnings) \in {0, 1}
    /\ pc = "approveCount" =>
          uniqueActiveApprovers(pullRequest.reviews.nodes)
              \in 0..Len(pullRequest.reviews.nodes)
    /\ pc = "done" =>
          /\ thrown = "none"
          /\ \/ Len(failures) = 1 /\ infos = 0
             \/ failures = <<>> /\ infos = 1
    /\ thrown # "none" => pc = "catch" /\ ENABLED MainCatch

\* the upstream query rejects: main reports the error with setFailed
C18_Witness ==
    /\ pc = "done"
    /\ upstream = 1
    /\ ~Fetched
    /\ failures = <<"request-failed">>
    /\ infos = 0

====
